---- MODULE Spec2Model ----
(***************************************************************************)
(* react-forms: the zod rule set (formSchema), the form value store        *)
(* (formSlicer) and the two form controllers that share them:              *)
(*   Variant A  ControlledForm   (react-hook-form + zodResolver)           *)
(*   Variant B  UncontrolledForm (useState fields, manual validation)      *)
(*                                                                         *)
(* Strings are sequences of one-character strings, so that the length and  *)
(* character-class rules are computed on the characters themselves.        *)
(***************************************************************************)
EXTENDS Integers, Sequences, FiniteSets, TLC

(***************************************************************************)
(* Characters                                                              *)
(***************************************************************************)
Lower ==
  {"a","b","c","d","e","f","g","h","i","j","k","l","m",
   "n","o","p","q","r","s","t","u","v","w","x","y","z"}

Upper ==
  {"A","B","C","D","E","F","G","H","I","J","K","L","M",
   "N","O","P","Q","R","S","T","U","V","W","X","Y","Z"}

Digit ==
  {"0","1","2","3","4","5","6","7","8","9"}

\* the character class of the password regex, schema.ts line 20:
\*   [!@#$%^&*()_+\-=[\]{};':"\\|,.<>/?]
Special ==
  {"!","@","#","$","%","^","&","*","(",")","_","+","-","=","[","]",
   "{","}",";","'",":","\"","\\","|",",",".","<",">","/","?"}

\* characters that '.' of a JavaScript regex does not match
LineTerminator ==
  {"\n","\r"}

(***************************************************************************)
(* String helpers (String.prototype / RegExp behaviour used by the rules)  *)
(***************************************************************************)
StartsWith(s, p) ==
  /\ Len(p) <= Len(s)
  /\ SubSeq(s, 1, Len(p)) = p

\* the lookahead (?=.*[C]) anchored at ^: a character of C that '.*' can
\* reach from the start, that is, with no line terminator before it
Lookahead(s, C) ==
  \E i \in 1..Len(s) :
    /\ s[i] \in C
    /\ \A j \in 1..(i-1) : s[j] \notin LineTerminator

\* /^[A-Z]/
StartsUpper(s) ==
  /\ Len(s) >= 1
  /\ s[1] \in Upper

\* the regex with its digit lookahead left out
PasswordRegexNoDigit(s) ==
  /\ Lookahead(s, Lower)
  /\ Lookahead(s, Upper)
  /\ Lookahead(s, Special)

\* /^(?=.*[a-z])(?=.*[A-Z])(?=.*\d)(?=.*[special])/
PasswordRegex(s) ==
  /\ Lookahead(s, Lower)
  /\ Lookahead(s, Upper)
  /\ Lookahead(s, Digit)
  /\ Lookahead(s, Special)

AlNum == Lower \cup Upper \cup Digit

EmailLocalOK(l) ==
  /\ Len(l) >= 1
  /\ \A i \in 1..Len(l) : l[i] \in AlNum \cup {"_","'","+","-","."}
  /\ l[1] # "."
  /\ l[Len(l)] \in AlNum \cup {"_","+","-"}
  /\ \A i \in 1..(Len(l)-1) : ~(l[i] = "." /\ l[i+1] = ".")

EmailDomainOK(d) ==
  \E t \in 1..Len(d) :
    /\ d[t] = "."
    /\ \A i \in (t+1)..Len(d) : d[i] \in Lower \cup Upper
    /\ Len(d) - t >= 2
    /\ d[1] \in AlNum
    /\ \A i \in 1..t : d[i] \in AlNum \cup {"-","."}
    /\ \A i \in 2..t : d[i-1] = "." => d[i] \in AlNum

\* zod's .email(): local@label.(label.)*tld
IsEmail(s) ==
  \E k \in 1..Len(s) :
    /\ s[k] = "@"
    /\ EmailLocalOK(SubSeq(s, 1, k-1))
    /\ EmailDomainOK(SubSeq(s, k+1, Len(s)))

(***************************************************************************)
(* Values.  A bundle (FormSchema) is a record with the nine keys below.    *)
(* A number is held as <<n>> when it is the integer n and as <<n, t>> when *)
(* it is n + t/10 (t in 1..9), and JavaScript's undefined as <<>>, so that *)
(* AgeField's "field.onChange(value === '' ? undefined : Number(value))"   *)
(* has a value to produce.                                                 *)
(***************************************************************************)
Fields ==
  <<"name", "age", "email", "password", "confirmPassword",
    "gender", "terms", "imageBase64", "country">>

FieldSet ==
  {Fields[i] : i \in 1..Len(Fields)}

Undefined == <<>>

Num(n) == <<n>>

IsNumber(a) == Len(a) >= 1

\* Number.isInteger
IsInteger(a) == Len(a) = 1

\* ten times the number, for comparing numbers that are not integers
Tenths(a) == 10 * a[1] + (IF Len(a) = 2 THEN a[2] ELSE 0)

defaultFormValues ==
  [name |-> <<>>, age |-> Num(0), email |-> <<>>, password |-> <<>>,
   confirmPassword |-> <<>>, gender |-> <<>>, terms |-> FALSE,
   imageBase64 |-> <<>>, country |-> <<>>]

(***************************************************************************)
(* The rule set: formSchema                                                *)
(***************************************************************************)
MsgNameRequired  == "Name is required"
MsgNameUpper     == "Name must start with an uppercase letter"
MsgNameMin2      == "Name must be at least 2 characters long"
MsgAgeType       == "Required"
MsgAgeNegative   == "Age cannot be negative"
MsgAge18         == "Must be at least 18 years old"
MsgAge120        == "Age must be reasonable"
MsgEmailRequired == "Email is required"
MsgEmailFormat   == "Invalid email format"
MsgPwLength      == "Password must be at least 8 characters long"
MsgPwComplexity  == "Password must contain at least one lowercase letter, one uppercase letter, one number, and one special character"
MsgConfirm       == "Please confirm your password"
MsgGender        == "Please select a gender"
MsgTerms         == "You must agree to the terms and conditions"
MsgImageFormat   == "Invalid image format"
MsgImageType     == "Only PNG, JPEG, and SVG images are allowed"
MsgCountry       == "Please select a country"
MsgMatch         == "Passwords must match"

Issue(p, m) == [path |-> p, message |-> m]

\* zod runs every check of a schema and reports the failing ones in the
\* order they were declared
Check(passes, p, m) ==
  IF passes THEN <<>> ELSE <<Issue(p, m)>>

nameIssues(v) ==
  Check(Len(v) >= 1, "name", MsgNameRequired) \o
  Check(StartsUpper(v), "name", MsgNameUpper) \o
  Check(Len(v) >= 2, "name", MsgNameMin2)

\* .min(0), .min(18), .max(120)
MinAge0 == 0
MinAge == 18
MaxAge == 120

\* z.number() rejects a value that is not a number before any check runs
ageIssues(v) ==
  IF ~IsNumber(v) THEN <<Issue("age", MsgAgeType)>>
  ELSE Check(Tenths(v) >= 10 * MinAge0, "age", MsgAgeNegative) \o
       Check(Tenths(v) >= 10 * MinAge, "age", MsgAge18) \o
       Check(Tenths(v) <= 10 * MaxAge, "age", MsgAge120)

emailIssues(v) ==
  Check(Len(v) >= 1, "email", MsgEmailRequired) \o
  Check(IsEmail(v), "email", MsgEmailFormat)

MinPasswordLength == 8

passwordIssues(v) ==
  Check(Len(v) >= MinPasswordLength, "password", MsgPwLength) \o
  Check(PasswordRegex(v), "password", MsgPwComplexity)

confirmPasswordIssues(v) ==
  Check(Len(v) >= 1, "confirmPassword", MsgConfirm)

genderIssues(v) ==
  Check(Len(v) >= 1, "gender", MsgGender)

termsIssues(v) ==
  Check(v = TRUE, "terms", MsgTerms)

DataImage == <<"d","a","t","a",":","i","m","a","g","e","/">>

allowedTypes ==
  { DataImage \o <<"p","n","g">>,
    DataImage \o <<"j","p","e","g">>,
    DataImage \o <<"j","p","g">>,
    DataImage \o <<"s","v","g","+","x","m","l">> }

imageBase64Issues(v) ==
  Check(v = <<>> \/ StartsWith(v, DataImage), "imageBase64", MsgImageFormat) \o
  Check(v = <<>> \/ \E t \in allowedTypes : StartsWith(v, t),
        "imageBase64", MsgImageType)

countryIssues(v) ==
  Check(Len(v) >= 1, "country", MsgCountry)

\* a field whose type check failed aborts the object: the object-level
\* refinement is not run on it
Aborted(d) == ~IsNumber(d.age)

\* the refinement declared without its path: the issue lands on password
refineIssuesOnPassword(d) ==
  IF Aborted(d) THEN <<>>
  ELSE Check(d.password = d.confirmPassword, "password", MsgMatch)

\* .refine(data => data.password === data.confirmPassword,
\*         { message, path: ['confirmPassword'] })
refineIssues(d) ==
  IF Aborted(d) THEN <<>>
  ELSE Check(d.password = d.confirmPassword, "confirmPassword", MsgMatch)

\* error.issues of formSchema.parse(d): the fields in key order, then the
\* cross-field refinement
Issues(d) ==
  nameIssues(d.name) \o ageIssues(d.age) \o emailIssues(d.email) \o
  passwordIssues(d.password) \o confirmPasswordIssues(d.confirmPassword) \o
  genderIssues(d.gender) \o termsIssues(d.terms) \o
  imageBase64Issues(d.imageBase64) \o countryIssues(d.country) \o
  refineIssues(d)

\* formSchema.parse(d) returns instead of throwing
Valid(d) == Issues(d) = <<>>

PathsOf(iss) == {iss[i].path : i \in 1..Len(iss)}

\* the first / the last issue reported for path f
FirstMessage(iss, f) ==
  iss[CHOOSE i \in 1..Len(iss) :
        /\ iss[i].path = f
        /\ \A j \in 1..(i-1) : iss[j].path # f].message

LastMessage(iss, f) ==
  iss[CHOOSE i \in 1..Len(iss) :
        /\ iss[i].path = f
        /\ \A j \in (i+1)..Len(iss) : iss[j].path # f].message

(***************************************************************************)
(* The form value store: formSlicer                                        *)
(***************************************************************************)
\* the spread written the other way round: { ...action.payload, ...state }
setFormValueKeepOld(state, payload) ==
  [k \in DOMAIN state \cup DOMAIN payload |->
     IF k \in DOMAIN state THEN state[k] ELSE payload[k]]

\* the reducer returning the payload alone: return action.payload
setFormValueReplace(state, payload) ==
  payload

\* { ...state, ...action.payload }
setFormValue(state, payload) ==
  [k \in DOMAIN state \cup DOMAIN payload |->
     IF k \in DOMAIN payload THEN payload[k] ELSE state[k]]

(***************************************************************************)
(* What the user can type or pick (bounded input sets)                     *)
(***************************************************************************)
StrongA == <<"A","a","1","!","a","a","a","a">>
StrongB == <<"B","b","2",":","b","b","b","b">>

\* the text of an <input>: e.target.value
TextInputs ==
  [name            |-> { <<>>, <<"J","o">> },
   age             |-> { <<>>, <<"2","5">> },
   email           |-> { <<>>, <<"a","@","b",".","i","o">> },
   password        |-> { <<>>, <<"a">>, StrongA },
   confirmPassword |-> { <<>>, StrongA, StrongB },
   gender          |-> { <<>>, <<"m","a","l","e">> },
   country         |-> { <<>>, <<"C","a","n","a","d","a">> }]

\* a bundle the store can hold when the form is mounted: the defaults, or a
\* bundle an earlier session of either form has submitted
AcceptedBundle ==
  [name |-> <<"J","o">>, age |-> Num(25), email |-> <<"a","@","b",".","i","o">>,
   password |-> StrongB, confirmPassword |-> StrongB,
   gender |-> <<"m","a","l","e">>, terms |-> TRUE, imageBase64 |-> <<>>,
   country |-> <<"C","a","n","a","d","a">>]

DigitValue(c) ==
  CHOOSE n \in 0..9 : c = <<"0","1","2","3","4","5","6","7","8","9">>[n+1]

\* Number(text) for a string of decimal digits
Number(text) ==
  LET N[i \in 0..Len(text)] ==
        IF i = 0 THEN 0 ELSE 10 * N[i-1] + DigitValue(text[i])
  IN N[Len(text)]

(***************************************************************************)
(* State                                                                   *)
(***************************************************************************)
VARIABLES
  store,          \* state.form of the redux store
  mounted,        \* "none", "controlled" (Variant A) or "uncontrolled" (B)
  values,         \* the mounted form's field values
  errors,         \* ValidationErrors: field name -> message, partial
  hasInteracted,  \* Variant A: the hasInteracted flag of each field
  isFormValid,    \* Variant A: the memoised isFormValid
  isSubmitted,    \* Variant A: formState.isSubmitted
  effects,        \* the dispatches and callbacks made by the last handler
  issues,         \* the issues of the last formSchema.parse of the rule checks
  payloads,       \* the payloads of the setFormValue actions dispatched so far
  countries,      \* state.selectedCountries.countries
  isLoading,      \* state.selectedCountries.isLoading
  error,          \* state.selectedCountries.error
  fetches,        \* the fetchCountries thunks dispatched so far, in flight or not
  searchTerm,     \* the country field's searchTerm
  filteredCountries,  \* the country field's filteredCountries
  imageBase64,    \* the image field's value, as set through setValue
  validationError,    \* the image field's validationError
  isProcessing,   \* the image field's isProcessing
  reading,        \* the files a FileReader is reading
  files,          \* e.target.files of the image input's last change event
  isModalOpen,    \* App's isModalOpen
  isFormControlled,   \* App's isFormControlled
  submittedData,  \* App's submittedData: <<>> for null, else <<data>>
  showHighlight,  \* App's showHighlight
  timers,         \* the highlight-clear timers that have not fired yet
  listeners       \* the keydown/mousedown listener pairs Modal has on document

formVars ==
  <<store, mounted, values, errors, hasInteracted, isFormValid,
    isSubmitted, effects, issues>>

countryVars ==
  <<countries, isLoading, error, fetches, searchTerm, filteredCountries>>

imageVars ==
  <<imageBase64, validationError, isProcessing, reading, files>>

appVars ==
  <<isModalOpen, isFormControlled, submittedData, showHighlight, timers,
    listeners>>

vars ==
  <<formVars, payloads, countryVars, imageVars, appVars>>

\* no setFormValue dispatched yet
NoPayloads == payloads = <<>>

\* the country field and the countries slice, nothing fetched or typed
NoCountryField ==
  /\ countries = <<>>
  /\ isLoading = FALSE
  /\ error = <<>>
  /\ fetches = 0
  /\ searchTerm = <<>>
  /\ filteredCountries = <<>>

\* the image field, nothing picked
NoImageField ==
  /\ imageBase64 = <<>>
  /\ validationError = ""
  /\ isProcessing = FALSE
  /\ reading = <<>>
  /\ files = <<>>

\* App as it is constructed: the modal closed, nothing submitted, no timer;
\* a form rendered on its own (as its tests render it) has no App around it
\* and leaves this state alone
NoApp ==
  /\ isModalOpen = FALSE
  /\ isFormControlled = FALSE
  /\ submittedData = <<>>
  /\ showHighlight = FALSE
  /\ timers = 0
  /\ listeners = 0

NoErrors == [f \in {} |-> ""]

NoFlags == [f \in FieldSet |-> FALSE]

Dispatch(payload) == [op |-> "setFormValue", arg |-> payload]

Callback(data) == [op |-> "onSubmit", arg |-> data]

SetError(errs, f, m) ==
  [g \in DOMAIN errs \cup {f} |-> IF g = f THEN m ELSE errs[g]]

ClearError(errs, f) ==
  [g \in DOMAIN errs \ {f} |-> errs[g]]

(***************************************************************************)
(* Variant B: UncontrolledForm                                             *)
(***************************************************************************)
\* the useEffect on filledFormValues: every field is set from the store,
\* a falsy stored value replaced by the field's default
FromStore(filled) ==
  [name            |-> filled.name,
   email           |-> filled.email,
   password        |-> filled.password,
   confirmPassword |-> filled.confirmPassword,
   age             |-> IF IsNumber(filled.age) THEN filled.age ELSE Num(0),
   gender          |-> filled.gender,
   terms           |-> filled.terms,
   imageBase64     |-> filled.imageBase64,
   country         |-> filled.country]

\* UncontrolledInputField (type number) passes Number(text) or null, and the
\* age onChange turns that into a number: null becomes 0
AgeOfTextB(text) ==
  IF text = <<>> THEN Num(0) ELSE Num(Number(text))

\* a validateField that records every failing field, as handleSubmit does
validateFieldAll(f, v, vals, errs) ==
  LET partialData == [vals EXCEPT ![f] = v]
      iss == Issues(partialData)
  IN [g \in PathsOf(iss) |-> FirstMessage(iss, g)]

\* a validateField whose success branch empties the errors: setErrors({})
validateFieldClearsAll(f, v, vals, errs) ==
  LET partialData == [vals EXCEPT ![f] = v]
      iss == Issues(partialData)
  IN IF iss = <<>> THEN NoErrors
     ELSE IF f \in PathsOf(iss) THEN SetError(errs, f, FirstMessage(iss, f))
     ELSE errs

\* validateField(fieldName, value): the errors it leaves, given the values
\* of the render it was created in
validateField(f, v, vals, errs) ==
  LET partialData == [vals EXCEPT ![f] = v]
      iss == Issues(partialData)
  IN IF iss = <<>> THEN ClearError(errs, f)
     ELSE IF f \in PathsOf(iss) THEN SetError(errs, f, FirstMessage(iss, f))
     ELSE errs

\* the text an age <input value={value || ''}> shows differs from text
AgeTextDiffers(text, a) ==
  IF text = <<>> THEN IsNumber(a) /\ a[1] # 0
  ELSE ~(IsNumber(a) /\ a[1] # 0 /\ a[1] = Number(text))

\* an onChange that also dispatches the changed value to the store
ChangeBSaves(f, v) ==
  /\ mounted = "uncontrolled"
  /\ values' = [values EXCEPT ![f] = v]
  /\ errors' = validateField(f, v, values, errors)
  /\ store' = [store EXCEPT ![f] = v]
  /\ effects' = <<>>
  /\ UNCHANGED <<mounted, hasInteracted, isFormValid, isSubmitted, issues>>
  /\ UNCHANGED <<payloads, countryVars, imageVars, appVars>>

\* onChange of a field: setX(value); validateField(x, value)
ChangeB(f, v) ==
  /\ mounted = "uncontrolled"
  /\ values' = [values EXCEPT ![f] = v]
  /\ errors' = validateField(f, v, values, errors)
  /\ effects' = <<>>
  /\ UNCHANGED <<store, mounted, hasInteracted, isFormValid, isSubmitted, issues>>
  /\ UNCHANGED <<payloads, countryVars, imageVars, appVars>>

\* a change event carries a text other than the one the input shows
TypeB ==
  \E f \in DOMAIN TextInputs \ {"age"} : \E t \in TextInputs[f] :
    /\ t # values[f]
    /\ ChangeB(f, t)

TypeAgeB ==
  \E t \in TextInputs.age :
    /\ AgeTextDiffers(t, values.age)
    /\ ChangeB("age", AgeOfTextB(t))

ToggleTermsB ==
  ChangeB("terms", ~values.terms)

\* an error collection that stops at the first issue
submitErrorsFirstIssue(iss) ==
  [f \in {iss[1].path} |-> iss[1].message]

\* an error collection that keeps the first message of a field:
\* if (!(fieldName in newErrors)) newErrors[fieldName] = err.message
submitErrorsKeepFirst(iss) ==
  [f \in PathsOf(iss) |-> FirstMessage(iss, f)]

\* handleSubmit, catch branch: newErrors[path[0]] = message for each issue in
\* turn, a later issue of a field overwriting an earlier one
submitErrors(iss) ==
  [f \in PathsOf(iss) |-> LastMessage(iss, f)]

\* a handleSubmit whose success branch forgets setErrors({})
SubmitBKeepsErrors ==
  /\ mounted = "uncontrolled"
  /\ LET formData == values
         iss == Issues(formData)
     IN IF iss = <<>>
          THEN /\ store' = setFormValue(store, formData)
               /\ effects' = <<Dispatch(formData), Callback(formData)>>
               /\ values' = FromStore(store')
               /\ UNCHANGED errors
          ELSE /\ errors' = submitErrors(iss)
               /\ effects' = <<>>
               /\ UNCHANGED <<store, values>>
  /\ UNCHANGED <<mounted, hasInteracted, isFormValid, isSubmitted, issues>>
  /\ UNCHANGED <<payloads, countryVars, imageVars, appVars>>

\* handleSubmit; the dispatch changes state.form, and the useEffect on it
\* sets the fields from the store again
SubmitB ==
  /\ mounted = "uncontrolled"
  /\ LET formData == values
         iss == Issues(formData)
     IN IF iss = <<>>
          THEN /\ errors' = NoErrors
               /\ store' = setFormValue(store, formData)
               /\ effects' = <<Dispatch(formData), Callback(formData)>>
               /\ values' = FromStore(store')
          ELSE /\ errors' = submitErrors(iss)
               /\ effects' = <<>>
               /\ UNCHANGED <<store, values>>
  /\ UNCHANGED <<mounted, hasInteracted, isFormValid, isSubmitted, issues>>
  /\ UNCHANGED <<payloads, countryVars, imageVars, appVars>>

InitB ==
  /\ store = defaultFormValues
  /\ mounted = "uncontrolled"
  /\ values = FromStore(store)
  /\ errors = NoErrors
  /\ hasInteracted = NoFlags
  /\ isFormValid = FALSE
  /\ isSubmitted = FALSE
  /\ effects = <<>>
  /\ issues = <<>>
  /\ NoPayloads /\ NoCountryField /\ NoImageField /\ NoApp

NextB ==
  \/ TypeB
  \/ TypeAgeB
  \/ ToggleTermsB
  \/ SubmitB

SpecB == InitB /\ [][NextB]_vars

(***************************************************************************)
(* Variant A: ControlledForm (react-hook-form, zodResolver, mode onBlur,   *)
(* reValidateMode onChange) with the fields of ControlledInputFields       *)
(***************************************************************************)
\* a resolver run on the field rules alone, the cross-field refinement lost
ResolverErrorsFieldsOnly(d) ==
  LET all == Issues(d)
      iss == SelectSeq(all, LAMBDA x : x.message # MsgMatch)
  IN [f \in PathsOf(iss) |-> FirstMessage(iss, f)]

\* zodResolver: formState.errors of a failed parse, the first issue of each
\* path; empty when the parse succeeds
ResolverErrors(d) ==
  LET iss == Issues(d)
  IN [f \in PathsOf(iss) |-> FirstMessage(iss, f)]

\* trigger(f), and the validation react-hook-form runs for one field: the
\* whole schema is run and the entry of f alone is set or removed
trigger(f, vals, errs) ==
  LET res == ResolverErrors(vals)
  IN IF f \in DOMAIN res THEN SetError(errs, f, res[f]) ELSE ClearError(errs, f)

\* AgeField: field.onChange(value === '' ? undefined : Number(value))
AgeOfTextA(text) ==
  IF text = <<>> THEN Undefined ELSE Num(Number(text))

\* the names of the records the country dropdown lists
CountryNames == { <<"C","a","n","a","d","a">> }

\* isFormValid: useMemo(() => parse(getValues()), [methods]); methods is the
\* same object on every render, so the memo is computed at the first render
isFormValidMemo(vals) == Issues(vals) = <<>>

\* the submit button: disabled={!isFormValid || isSubmitting}
SubmitEnabled ==
  /\ mounted = "controlled"
  /\ isFormValid

\* onChange of a field: field.onChange(value), which validates once the form
\* has been submitted; then trigger(f) when the field's hasInteracted flag
\* was already set in the render the handler belongs to
ChangeA(f, v) ==
  /\ mounted = "controlled"
  /\ values' = [values EXCEPT ![f] = v]
  /\ errors' = IF isSubmitted \/ hasInteracted[f]
                 THEN trigger(f, values', errors)
                 ELSE errors
  /\ hasInteracted' = [hasInteracted EXCEPT ![f] = TRUE]
  /\ effects' = <<>>
  /\ UNCHANGED <<store, mounted, isFormValid, isSubmitted, issues>>
  /\ UNCHANGED <<payloads, countryVars, imageVars, appVars>>

TypeA ==
  \E f \in DOMAIN TextInputs \ {"age", "country"} : \E t \in TextInputs[f] :
    /\ t # values[f]
    /\ ChangeA(f, t)

TypeAgeA ==
  \E t \in TextInputs.age :
    /\ AgeTextDiffers(t, values.age)
    /\ ChangeA("age", AgeOfTextA(t))

ToggleTermsA ==
  ChangeA("terms", ~values.terms)

\* a search box that hands the typed text to the form, as Variant B's does:
\* field.onChange(e.target.value)
TypeCountryAKeepsText ==
  \E t \in { <<"C">>, <<"C","a">> } : ChangeA("country", t)

\* typing in the country search box: field.onChange('')
TypeCountryA ==
  ChangeA("country", <<>>)

\* clicking a record of the dropdown: field.onChange(country.name)
SelectCountryA ==
  \E c \in CountryNames : ChangeA("country", c)

\* onBlur of a field: field.onBlur(), which validates until the form has
\* been submitted; then trigger(f) as in onChange.  The country input does
\* not call field.onBlur().
BlurA ==
  \E f \in FieldSet \ {"imageBase64"} :
    /\ mounted = "controlled"
    /\ errors' = IF (f # "country" /\ ~isSubmitted) \/ hasInteracted[f]
                   THEN trigger(f, values, errors)
                   ELSE errors
    /\ hasInteracted' = [hasInteracted EXCEPT ![f] = TRUE]
    /\ effects' = <<>>
    /\ UNCHANGED <<store, mounted, values, isFormValid, isSubmitted, issues>>
    /\ UNCHANGED <<payloads, countryVars, imageVars, appVars>>

\* a handleSubmit that passes the bundle on without its confirmation:
\* const { confirmPassword, ...rest } = data
SubmitAOmitsConfirm ==
  /\ SubmitEnabled
  /\ LET res == ResolverErrors(values)
         data == [k \in FieldSet \ {"confirmPassword"} |-> values[k]]
     IN /\ errors' = res
        /\ IF res = NoErrors
             THEN /\ store' = setFormValue(store, data)
                  /\ effects' = <<Dispatch(data), Callback(data)>>
             ELSE /\ effects' = <<>>
                  /\ UNCHANGED store
  /\ isSubmitted' = TRUE
  /\ UNCHANGED <<mounted, values, hasInteracted, isFormValid, issues>>
  /\ UNCHANGED <<payloads, countryVars, imageVars, appVars>>

\* a click on the enabled submit button: methods.handleSubmit(handleSubmit)
\* runs the resolver and calls handleSubmit only when it reports no error
SubmitA ==
  /\ SubmitEnabled
  /\ LET res == ResolverErrors(values)
         data == values
     IN /\ errors' = res
        /\ IF res = NoErrors
             THEN /\ store' = setFormValue(store, data)
                  /\ effects' = <<Dispatch(data), Callback(data)>>
             ELSE /\ effects' = <<>>
                  /\ UNCHANGED store
  /\ isSubmitted' = TRUE
  /\ UNCHANGED <<mounted, values, hasInteracted, isFormValid, issues>>
  /\ UNCHANGED <<payloads, countryVars, imageVars, appVars>>

InitA ==
  /\ store \in {defaultFormValues, AcceptedBundle}
  /\ mounted = "controlled"
  /\ values = store
  /\ errors = NoErrors
  /\ hasInteracted = NoFlags
  /\ isFormValid = isFormValidMemo(values)
  /\ isSubmitted = FALSE
  /\ effects = <<>>
  /\ issues = <<>>
  /\ NoPayloads /\ NoCountryField /\ NoImageField /\ NoApp

NextA ==
  \/ TypeA
  \/ TypeAgeA
  \/ ToggleTermsA
  \/ TypeCountryA
  \/ SelectCountryA
  \/ BlurA
  \/ SubmitA

SpecA == InitA /\ [][NextA]_vars

(***************************************************************************)
(* The rule set on its own: formSchema.parse applied to bundles drawn from *)
(* bounded sets of passwords and confirmations                             *)
(***************************************************************************)
MaxCore == 3
MaxFill == 5

\* a character of each class of the password rule, ':' apart, a character of
\* no class and a line terminator
PwAlphabet == {"a", "A", "1", "!", ":", "~", "\n"}

Cores ==
  UNION {[1..n -> PwAlphabet] : n \in 0..MaxCore}

\* a core followed by k copies of one character
Passwords ==
  {c \o [i \in 1..k |-> x] : c \in Cores, k \in 0..MaxFill, x \in PwAlphabet}

PairInputs ==
  { <<>>, <<"a">>, StrongA, StrongB, <<"a","A","1","~","a","a","a","a">> }

\* the other fields of the bundle: all acceptable, all at their defaults, or
\* acceptable but for an age that is not a number (the cleared age input of
\* Variant A)
Bases ==
  { AcceptedBundle, defaultFormValues, [AcceptedBundle EXCEPT !.age = Undefined] }

\* the ages given to the rule set: the integers from -1 on, the numbers
\* halfway between them, and undefined
MaxAgeInput == 150

Ages ==
  {Num(n) : n \in -1..MaxAgeInput} \cup {<<n, 5>> : n \in -1..MaxAgeInput}
    \cup {Undefined}

InitRules ==
  /\ \/ \E p \in Passwords :
          values = [AcceptedBundle EXCEPT !.password = p, !.confirmPassword = p]
     \/ \E a \in Ages :
          values = [AcceptedBundle EXCEPT !.age = a]
     \/ \E b \in Bases : \E p \in PairInputs : \E c \in PairInputs :
          values = [b EXCEPT !.password = p, !.confirmPassword = c]
  /\ store = defaultFormValues
  /\ mounted = "none"
  /\ errors = NoErrors
  /\ hasInteracted = NoFlags
  /\ isFormValid = FALSE
  /\ isSubmitted = FALSE
  /\ effects = <<>>
  /\ issues = <<>>
  /\ NoPayloads /\ NoCountryField /\ NoImageField /\ NoApp

\* formSchema.parse(values), its issues kept
ParseRules ==
  /\ mounted = "none"
  /\ effects = <<>>
  /\ issues' = Issues(values)
  /\ effects' = <<[op |-> "parse", arg |-> values]>>
  /\ UNCHANGED <<store, mounted, values, errors, hasInteracted, isFormValid,
                 isSubmitted>>
  /\ UNCHANGED <<payloads, countryVars, imageVars, appVars>>

NextRules ==
  ParseRules

SpecRules == InitRules /\ [][NextRules]_vars

(***************************************************************************)
(* The form value store on its own: setFormValue dispatched with partial   *)
(* bundles, as the store's tests do                                        *)
(***************************************************************************)
MaxMerges == 3

StoreKeys == {"name", "terms", "imageBase64"}

\* full choices of values for the keys a payload may carry
PayloadChoices ==
  [name : { <<"J","o">>, <<"A","l">> },
   terms : {TRUE, FALSE},
   imageBase64 : { DataImage \o <<"p","n","g">> }]

\* action.payload: the values of some of the keys
Payloads ==
  { [k \in K |-> c[k]] : c \in PayloadChoices, K \in SUBSET StoreKeys }

InitStore ==
  /\ store = defaultFormValues
  /\ mounted = "none"
  /\ values = defaultFormValues
  /\ errors = NoErrors
  /\ hasInteracted = NoFlags
  /\ isFormValid = FALSE
  /\ isSubmitted = FALSE
  /\ effects = <<>>
  /\ issues = <<>>
  /\ NoPayloads /\ NoCountryField /\ NoImageField /\ NoApp

\* store.dispatch(setFormValue(payload))
DispatchSetFormValue ==
  \E payload \in Payloads :
    /\ Len(payloads) < MaxMerges
    /\ store' = setFormValue(store, payload)
    /\ payloads' = Append(payloads, payload)
    /\ UNCHANGED <<mounted, values, errors, hasInteracted, isFormValid,
                   isSubmitted, effects, issues, countryVars, imageVars,
                   appVars>>

NextStore ==
  DispatchSetFormValue

SpecStore == InitStore /\ [][NextStore]_vars

(***************************************************************************)
(* The countries slice (selectedCountries) and the country field's filter  *)
(***************************************************************************)
UpperLetters ==
  <<"A","B","C","D","E","F","G","H","I","J","K","L","M",
    "N","O","P","Q","R","S","T","U","V","W","X","Y","Z">>

LowerLetters ==
  <<"a","b","c","d","e","f","g","h","i","j","k","l","m",
    "n","o","p","q","r","s","t","u","v","w","x","y","z">>

\* String.prototype.toLowerCase
toLowerCase(s) ==
  [i \in 1..Len(s) |->
     IF s[i] \in Upper
       THEN LowerLetters[CHOOSE k \in 1..26 : UpperLetters[k] = s[i]]
       ELSE s[i]]

\* the characters String.prototype.trim removes
Whitespace == {" ", "\t", "\n", "\r"}

\* String.prototype.trim
trim(s) ==
  LET kept == {i \in 1..Len(s) : s[i] \notin Whitespace}
  IN IF kept = {} THEN <<>>
     ELSE SubSeq(s, CHOOSE i \in kept : \A j \in kept : i <= j,
                    CHOOSE i \in kept : \A j \in kept : j <= i)

\* String.prototype.includes
includes(s, t) ==
  \E i \in 0..(Len(s) - Len(t)) : SubSeq(s, i + 1, i + Len(t)) = t

\* the number of records the dropdown lists: .slice(0, 10)
FilterLimit == 10

\* Array.prototype.slice(from, to)
slice(list, from, to) ==
  SubSeq(list, from + 1, IF to < Len(list) THEN to ELSE Len(list))

\* the filter with its test written searchTerm === '', the trim left out
FilterEffectNoTrim(list, term) ==
  IF term = <<>>
    THEN slice(list, 0, FilterLimit)
    ELSE slice(SelectSeq(list, LAMBDA country :
                 \/ includes(toLowerCase(country.name), toLowerCase(term))
                 \/ includes(toLowerCase(country.alpha2Code), toLowerCase(term))),
               0, FilterLimit)

\* the filter matching on the name alone
FilterEffectNameOnly(list, term) ==
  IF trim(term) = <<>>
    THEN slice(list, 0, FilterLimit)
    ELSE slice(SelectSeq(list, LAMBDA country :
                 includes(toLowerCase(country.name), toLowerCase(term))),
               0, FilterLimit)

\* the filter with its slice off by one: .slice(1, 11)
FilterEffectFromSecond(list, term) ==
  IF trim(term) = <<>>
    THEN slice(list, 1, FilterLimit + 1)
    ELSE slice(SelectSeq(list, LAMBDA country :
                 \/ includes(toLowerCase(country.name), toLowerCase(term))
                 \/ includes(toLowerCase(country.alpha2Code), toLowerCase(term))),
               1, FilterLimit + 1)

\* the useEffect on [searchTerm, countries]: what it gives setFilteredCountries
FilterEffect(list, term) ==
  IF trim(term) = <<>>
    THEN slice(list, 0, FilterLimit)
    ELSE slice(SelectSeq(list, LAMBDA country :
                 \/ includes(toLowerCase(country.name), toLowerCase(term))
                 \/ includes(toLowerCase(country.alpha2Code), toLowerCase(term))),
               0, FilterLimit)

MaxFill10 == 11
MaxTerm == 2

\* serialized country records (the fields the filter cannot tell apart are
\* left out)
Chad == [name |-> <<"C","h","a","d">>, alpha2Code |-> <<"T","D">>,
         alpha3Code |-> <<"T","C","D">>]
Cuba == [name |-> <<"C","u","b","a">>, alpha2Code |-> <<"C","U">>,
         alpha3Code |-> <<"C","U","B">>]
Togo == [name |-> <<"T","o","g","o">>, alpha2Code |-> <<"T","G">>,
         alpha3Code |-> <<"T","G","O">>]

\* the lists a fetch or a setCountries can deliver: a few records followed
\* by copies of one record, which take the list past the dropdown's limit
CountryLists ==
  { core \o [i \in 1..k |-> Chad] :
      core \in { <<>>, <<Cuba>>, <<Togo, Cuba>>, <<Cuba, Chad, Togo>> },
      k \in 0..MaxFill10 }

\* what can be typed in the search box
TermAlphabet == {"U", "t", " "}

Terms == UNION {[1..n -> TermAlphabet] : n \in 0..MaxTerm}

Null == <<>>

\* action.error.message of a rejected fetch: undefined, empty or a text
RejectionMessages == { Null, <<"">>, <<"Network Error">> }

MsgFetchFailed == <<"Failed to fetch countries">>

InitCountries ==
  /\ store = defaultFormValues
  /\ mounted = "none"
  /\ values = defaultFormValues
  /\ errors = NoErrors
  /\ hasInteracted = NoFlags
  /\ isFormValid = FALSE
  /\ isSubmitted = FALSE
  /\ effects = <<>>
  /\ issues = <<>>
  /\ NoPayloads /\ NoCountryField /\ NoImageField /\ NoApp

\* App's useEffect(() => dispatch(fetchCountries()), [dispatch]), run once
\* when App mounts, and the pending reducer
DispatchFetch ==
  /\ fetches = 0
  /\ fetches' = fetches + 1
  /\ isLoading' = TRUE
  /\ error' = Null
  /\ UNCHANGED <<countries, searchTerm, filteredCountries>>
  /\ UNCHANGED <<formVars, payloads, imageVars, appVars>>

\* fetchCountries.fulfilled, and the filter effect the new list sets off
FetchFulfilled ==
  \E payload \in CountryLists :
    /\ isLoading
    /\ isLoading' = FALSE
    /\ countries' = payload
    /\ error' = Null
    /\ filteredCountries' = FilterEffect(countries', searchTerm)
    /\ UNCHANGED <<fetches, searchTerm>>
    /\ UNCHANGED <<formVars, payloads, imageVars, appVars>>

\* a rejected reducer that also drops the list: state.countries = []
FetchRejectedDropsList(message) ==
  /\ isLoading
  /\ isLoading' = FALSE
  /\ error' = IF message \in {Null, <<"">>} THEN MsgFetchFailed ELSE message
  /\ countries' = <<>>
  /\ filteredCountries' = FilterEffect(countries', searchTerm)
  /\ UNCHANGED <<fetches, searchTerm>>
  /\ UNCHANGED <<formVars, payloads, imageVars, appVars>>

\* fetchCountries.rejected
FetchRejected(message) ==
  /\ isLoading
  /\ isLoading' = FALSE
  /\ error' = IF message \in {Null, <<"">>} THEN MsgFetchFailed ELSE message
  /\ UNCHANGED <<countries, fetches, searchTerm, filteredCountries>>
  /\ UNCHANGED <<formVars, payloads, imageVars, appVars>>

\* the setCountries reducer, and the filter effect the new list sets off
SetCountries ==
  \E payload \in CountryLists :
    /\ countries' = payload
    /\ payload # countries
    /\ filteredCountries' = FilterEffect(countries', searchTerm)
    /\ UNCHANGED <<isLoading, error, fetches, searchTerm>>
    /\ UNCHANGED <<formVars, payloads, imageVars, appVars>>

\* typing in the search box (disabled while loading): setSearchTerm, and the
\* filter effect the new term sets off
TypeSearch ==
  \E term \in Terms :
    /\ ~isLoading
    /\ term # searchTerm
    /\ searchTerm' = term
    /\ filteredCountries' = FilterEffect(countries, searchTerm')
    /\ UNCHANGED <<countries, isLoading, error, fetches>>
    /\ UNCHANGED <<formVars, payloads, imageVars, appVars>>

\* a click on a record of the dropdown: handleCountrySelect
SelectCountry ==
  \E i \in 1..Len(filteredCountries) :
    /\ searchTerm' = filteredCountries[i].name
    /\ filteredCountries' = FilterEffect(countries, searchTerm')
    /\ UNCHANGED <<countries, isLoading, error, fetches>>
    /\ UNCHANGED <<formVars, payloads, imageVars, appVars>>

NextCountries ==
  \/ DispatchFetch
  \/ FetchFulfilled
  \/ \E message \in RejectionMessages : FetchRejected(message)
  \/ SetCountries
  \/ TypeSearch
  \/ SelectCountry

SpecCountries == InitCountries /\ [][NextCountries]_vars

(***************************************************************************)
(* The image field: handleImageChange (store/helper), with the state the   *)
(* image field of either form gives it                                     *)
(***************************************************************************)
\* const maxSize = 5 * 1024 * 1024
maxSize == 5242880

ImagePng  == <<"i","m","a","g","e","/","p","n","g">>
ImageJpeg == <<"i","m","a","g","e","/","j","p","e","g">>
ImageJpg  == <<"i","m","a","g","e","/","j","p","g">>
ImageSvg  == <<"i","m","a","g","e","/","s","v","g","+","x","m","l">>
ImageGif  == <<"i","m","a","g","e","/","g","i","f">>

\* validateImage's allowedTypes
allowedMimeTypes == {ImagePng, ImageJpeg, ImageJpg, ImageSvg}

MsgImageSize    == "Image size must be less than 5MB"
MsgImageMime    == "Only PNG, JPEG, and SVG images are allowed"
MsgImageProcess == "Failed to process image"

\* validateImage returning null
NoImageError == ""

\* a validateImage that checks the size alone
validateImageSizeOnly(file) ==
  IF file.size > maxSize THEN MsgImageSize
  ELSE NoImageError

\* validateImage(file)
validateImage(file) ==
  IF file.size > maxSize THEN MsgImageSize
  ELSE IF file.type \notin allowedMimeTypes THEN MsgImageMime
  ELSE NoImageError

\* the files the user can pick: e.target.files[0]
Files ==
  [content : {"x", "y"},
   size : {1, maxSize, maxSize + 1},
   type : {ImagePng, ImageJpeg, ImageJpg, ImageSvg, ImageGif, <<>>}]

\* FileReader.readAsDataURL: data:<type>;base64,<content>
convertToBase64(file) ==
  <<"d","a","t","a",":">> \o file.type \o
  <<";","b","a","s","e","6","4",",">> \o <<file.content>>

InitImage ==
  /\ store = defaultFormValues
  /\ mounted = "none"
  /\ values = defaultFormValues
  /\ errors = NoErrors
  /\ hasInteracted = NoFlags
  /\ isFormValid = FALSE
  /\ isSubmitted = FALSE
  /\ effects = <<>>
  /\ issues = <<>>
  /\ NoPayloads /\ NoCountryField /\ NoImageField /\ NoApp

\* handleImageChange(e, ...) up to its await, fileList being e.target.files:
\* no file, a file validateImage refuses, or a file whose conversion starts
handleImageChange(fileList) ==
  /\ files' = fileList
  /\ IF fileList = <<>>
       THEN /\ imageBase64' = <<>>
            /\ validationError' = ""
            /\ UNCHANGED <<isProcessing, reading>>
       ELSE LET file == fileList[1]
                imageError == validateImage(file)
            IN IF imageError # NoImageError
                 THEN /\ validationError' = imageError
                      /\ imageBase64' = <<>>
                      /\ UNCHANGED <<isProcessing, reading>>
                 ELSE /\ validationError' = ""
                      /\ isProcessing' = TRUE
                      /\ reading' = Append(reading, file)
                      /\ UNCHANGED imageBase64
  /\ UNCHANGED <<formVars, payloads, countryVars, appVars>>

\* the image input's change event with no file (the file dialog was
\* cancelled); the input is disabled while isProcessing
ImageCleared ==
  /\ ~isProcessing
  /\ handleImageChange(<<>>)

\* an image input that is not disabled while isProcessing
ImageChangeUngated(file) ==
  /\ Len(reading) < 2
  /\ handleImageChange(<<file>>)

\* the image input's change event with a file; the input is disabled while
\* isProcessing
ImageChange(file) ==
  /\ ~isProcessing
  /\ handleImageChange(<<file>>)

\* reading without its i-th element
Settled(i) ==
  SubSeq(reading, 1, i - 1) \o SubSeq(reading, i + 1, Len(reading))

\* a conversion whose result is dropped unless its file is the one picked
\* last: if (file === latest) setValue('imageBase64', base64)
ReadDoneLatestOnly(i) ==
  /\ i \in DOMAIN reading
  /\ imageBase64' = IF files = <<reading[i]>>
                      THEN convertToBase64(reading[i])
                      ELSE imageBase64
  /\ isProcessing' = FALSE
  /\ reading' = Settled(i)
  /\ UNCHANGED <<validationError, files>>
  /\ UNCHANGED <<formVars, payloads, countryVars, appVars>>

\* reader.onload of the i-th pending conversion: its await returns, then the
\* finally block
ReadDone(i) ==
  /\ i \in DOMAIN reading
  /\ imageBase64' = convertToBase64(reading[i])
  /\ isProcessing' = FALSE
  /\ reading' = Settled(i)
  /\ UNCHANGED <<validationError, files>>
  /\ UNCHANGED <<formVars, payloads, countryVars, appVars>>

\* a handleImageChange without its finally block
ReadFailedKeepsProcessing(i) ==
  /\ i \in DOMAIN reading
  /\ validationError' = MsgImageProcess
  /\ imageBase64' = <<>>
  /\ reading' = Settled(i)
  /\ UNCHANGED <<isProcessing, files>>
  /\ UNCHANGED <<formVars, payloads, countryVars, appVars>>

\* reader.onerror of the i-th pending conversion: the catch block, then the
\* finally block
ReadFailed(i) ==
  /\ i \in DOMAIN reading
  /\ validationError' = MsgImageProcess
  /\ imageBase64' = <<>>
  /\ isProcessing' = FALSE
  /\ reading' = Settled(i)
  /\ UNCHANGED files
  /\ UNCHANGED <<formVars, payloads, countryVars, appVars>>

NextImage ==
  \/ ImageCleared
  \/ \E file \in Files : ImageChange(file)
  \/ \E i \in DOMAIN reading : ReadDone(i)
  \/ \E i \in DOMAIN reading : ReadFailed(i)

SpecImage == InitImage /\ [][NextImage]_vars

(***************************************************************************)
(* handleImageChange called directly with one set of setters, as its tests *)
(* call it: nothing disables a second call while a conversion is pending   *)
(***************************************************************************)
MaxInFlight == 2

\* the files handed to the direct calls: three that validateImage accepts
\* and two it refuses
DirectFiles ==
  { [content |-> "x", size |-> 1, type |-> ImagePng],
    [content |-> "y", size |-> 1, type |-> ImageJpeg],
    [content |-> "y", size |-> maxSize, type |-> ImageSvg],
    [content |-> "x", size |-> 1, type |-> ImageGif],
    [content |-> "x", size |-> maxSize + 1, type |-> ImagePng] }

\* handleImageChange(e, setValue, setValidationError, setIsProcessing)
CallHandleImageChange ==
  \E fileList \in {<<>>} \cup {<<file>> : file \in DirectFiles} :
    /\ Len(reading) < MaxInFlight
    /\ handleImageChange(fileList)

NextImageDirect ==
  \/ CallHandleImageChange
  \/ \E i \in DOMAIN reading : ReadDone(i)
  \/ \E i \in DOMAIN reading : ReadFailed(i)

SpecImageDirect == InitImage /\ [][NextImageDirect]_vars

(***************************************************************************)
(* Both form variants                                                      *)
(***************************************************************************)
Init == InitA \/ InitB

Next == NextA \/ NextB

Spec == Init /\ [][Next]_vars

(***************************************************************************)
(* App: the header buttons, the modal that mounts one of the two forms,    *)
(* the submitted data with its highlight, and the form store.  The form    *)
(* handlers are those above; the submit handlers are given again with      *)
(* App's handleFormSubmit in the place of the onSubmit they call.          *)
(***************************************************************************)
MaxTimers == 2

\* what the user types into a form mounted in the modal
AppInputs ==
  [name            |-> { <<"J","o">>, <<"A","l">> },
   age             |-> { <<"2","5">> },
   email           |-> { <<"a","@","b",".","i","o">> },
   password        |-> { StrongA },
   confirmPassword |-> { StrongA },
   gender          |-> { <<"m","a","l","e">> },
   country         |-> { <<"C","a","n","a","d","a">> }]

\* the values handleImageChange hands to setValue: '' or a data URI
ImageValues ==
  { <<>>, DataImage \o <<"p","n","g",";","b","a","s","e","6","4",",","x">> }

\* a mount that ignores the store: every field at its empty default
MountFormDefaults(variant) ==
  /\ mounted' = variant
  /\ values' = defaultFormValues
  /\ errors' = NoErrors
  /\ hasInteracted' = NoFlags
  /\ isFormValid' = FALSE
  /\ isSubmitted' = FALSE

\* the state of a form at its mount: Variant A's useForm({ defaultValues:
\* filledFormValues }), Variant B's useState defaults followed by the effect
\* that sets every field from the store
MountForm(variant) ==
  /\ mounted' = variant
  /\ values' = IF variant = "controlled" THEN store ELSE FromStore(store)
  /\ errors' = NoErrors
  /\ hasInteracted' = NoFlags
  /\ isFormValid' = (variant = "controlled" /\ isFormValidMemo(store))
  /\ isSubmitted' = FALSE

\* Modal returns null: the form is unmounted and its state is gone
UnmountForm ==
  /\ mounted' = "none"
  /\ values' = defaultFormValues
  /\ errors' = NoErrors
  /\ hasInteracted' = NoFlags
  /\ isFormValid' = FALSE
  /\ isSubmitted' = FALSE

\* a Modal effect whose cleanup removes no listener
EffectListenersNoCleanup(wasOpen, nowOpen) ==
  listeners + (IF nowOpen THEN 1 ELSE 0)

\* Modal's effect on [isOpen, onClose] after a render of App: the cleanup of
\* the previous run removes the listener pair it added, the new run adds one
\* when isOpen
EffectListeners(wasOpen, nowOpen) ==
  listeners - (IF wasOpen THEN 1 ELSE 0) + (IF nowOpen THEN 1 ELSE 0)

\* Header's handleButtonClick(buttonType, isControlled)
handleButtonClick(isControlled) ==
  LET variant == IF isControlled THEN "controlled" ELSE "uncontrolled"
  IN /\ isModalOpen' = TRUE
     /\ isFormControlled' = isControlled
     /\ listeners' = EffectListeners(isModalOpen, TRUE)
     /\ IF mounted = variant
          THEN UNCHANGED <<mounted, values, errors, hasInteracted,
                           isFormValid, isSubmitted>>
          ELSE MountForm(variant)
     /\ effects' = <<>>
     /\ UNCHANGED <<store, issues, submittedData, showHighlight, timers>>
     /\ UNCHANGED <<payloads, countryVars, imageVars>>

\* the onClose App gives Modal: setIsModalOpen(false)
onClose ==
  /\ isModalOpen' = FALSE
  /\ listeners' = EffectListeners(isModalOpen, FALSE)
  /\ UnmountForm
  /\ UNCHANGED <<isFormControlled, submittedData, showHighlight, timers>>

CloseCall(event) == [op |-> "onClose", arg |-> [event |-> event]]

\* a DOM event on document that makes each registered listener call onClose
\* or makes none do so
DocumentEvent(event, closes) ==
  /\ effects' = IF closes /\ listeners > 0
                  THEN [i \in 1..listeners |-> CloseCall(event)]
                  ELSE <<>>
  /\ IF closes /\ listeners > 0
       THEN onClose
       ELSE /\ UNCHANGED <<mounted, values, errors, hasInteracted,
                           isFormValid, isSubmitted>>
            /\ UNCHANGED appVars
  /\ UNCHANGED <<store, issues>>
  /\ UNCHANGED <<payloads, countryVars, imageVars>>

\* a keydown on document: handleEscape of every registered listener pair
Keydown(key) ==
  DocumentEvent("keydown", key = "Escape")

\* a mousedown on document: handleClickOutside of every registered listener
\* pair; the dialog element can be the target only while it is rendered
Mousedown(target) ==
  /\ target = "dialog" => isModalOpen
  /\ DocumentEvent("mousedown", target # "dialog")

\* a handleFormSubmit that clears the pending timer before it starts its own
handleFormSubmitClearsTimer(data) ==
  /\ submittedData' = <<data>>
  /\ isModalOpen' = FALSE
  /\ showHighlight' = TRUE
  /\ timers' = 1
  /\ listeners' = EffectListeners(isModalOpen, FALSE)
  /\ UnmountForm
  /\ UNCHANGED isFormControlled

\* App's handleFormSubmit(data), and the render that follows it
handleFormSubmit(data) ==
  /\ timers < MaxTimers
  /\ submittedData' = <<data>>
  /\ isModalOpen' = FALSE
  /\ showHighlight' = TRUE
  /\ timers' = timers + 1
  /\ listeners' = EffectListeners(isModalOpen, FALSE)
  /\ UnmountForm
  /\ UNCHANGED isFormControlled

\* the callback of a setTimeout(..., 5000) of handleFormSubmit
TimerFires ==
  /\ timers > 0
  /\ timers' = timers - 1
  /\ showHighlight' = FALSE
  /\ effects' = <<>>
  /\ UNCHANGED <<isModalOpen, isFormControlled, submittedData, listeners>>
  /\ UNCHANGED <<store, mounted, values, errors, hasInteracted, isFormValid,
                 isSubmitted, issues>>
  /\ UNCHANGED <<payloads, countryVars, imageVars>>

\* Variant B's handleSubmit, its onSubmit being App's handleFormSubmit
AppSubmitB ==
  /\ mounted = "uncontrolled"
  /\ LET formData == values
         iss == Issues(formData)
     IN IF iss = <<>>
          THEN /\ store' = setFormValue(store, formData)
               /\ effects' = <<Dispatch(formData), Callback(formData)>>
               /\ handleFormSubmit(formData)
          ELSE /\ errors' = submitErrors(iss)
               /\ effects' = <<>>
               /\ UNCHANGED <<store, mounted, values, hasInteracted,
                              isFormValid, isSubmitted>>
               /\ UNCHANGED appVars
  /\ UNCHANGED issues
  /\ UNCHANGED <<payloads, countryVars, imageVars>>

\* Variant A's submit, its onSubmit being App's handleFormSubmit
AppSubmitA ==
  /\ SubmitEnabled
  /\ LET res == ResolverErrors(values)
         data == values
     IN IF res = NoErrors
          THEN /\ store' = setFormValue(store, data)
               /\ effects' = <<Dispatch(data), Callback(data)>>
               /\ handleFormSubmit(data)
          ELSE /\ errors' = res
               /\ effects' = <<>>
               /\ isSubmitted' = TRUE
               /\ UNCHANGED <<store, mounted, values, hasInteracted,
                              isFormValid>>
               /\ UNCHANGED appVars
  /\ UNCHANGED issues
  /\ UNCHANGED <<payloads, countryVars, imageVars>>

AppTypeB ==
  \E f \in DOMAIN AppInputs \ {"age"} : \E t \in AppInputs[f] :
    /\ t # values[f]
    /\ ChangeB(f, t)

AppTypeAgeB ==
  \E t \in AppInputs.age :
    /\ AgeTextDiffers(t, values.age)
    /\ ChangeB("age", AgeOfTextB(t))

\* handleImageChange's setValue in Variant B: onChange(value)
AppImageB ==
  \E v \in ImageValues :
    /\ v # values.imageBase64
    /\ ChangeB("imageBase64", v)

AppTypeA ==
  \E f \in DOMAIN AppInputs \ {"age", "country"} : \E t \in AppInputs[f] :
    /\ t # values[f]
    /\ ChangeA(f, t)

AppTypeAgeA ==
  \E t \in AppInputs.age :
    /\ AgeTextDiffers(t, values.age)
    /\ ChangeA("age", AgeOfTextA(t))

\* handleImageChange's setValue in Variant A: setValue('imageBase64', value),
\* which runs no validation
AppImageA ==
  \E v \in ImageValues :
    /\ mounted = "controlled"
    /\ v # values.imageBase64
    /\ values' = [values EXCEPT !.imageBase64 = v]
    /\ hasInteracted' = [hasInteracted EXCEPT !.imageBase64 = TRUE]
    /\ effects' = <<>>
    /\ UNCHANGED <<store, mounted, errors, isFormValid, isSubmitted, issues>>
    /\ UNCHANGED <<payloads, countryVars, imageVars, appVars>>

InitApp ==
  /\ store = defaultFormValues
  /\ mounted = "none"
  /\ values = defaultFormValues
  /\ errors = NoErrors
  /\ hasInteracted = NoFlags
  /\ isFormValid = FALSE
  /\ isSubmitted = FALSE
  /\ effects = <<>>
  /\ issues = <<>>
  /\ NoPayloads /\ NoCountryField /\ NoImageField /\ NoApp

NextApp ==
  \/ \E isControlled \in BOOLEAN : handleButtonClick(isControlled)
  \/ \E key \in {"Escape", "Enter"} : Keydown(key)
  \/ \E target \in {"dialog", "outside"} : Mousedown(target)
  \/ TimerFires
  \/ AppSubmitA
  \/ AppSubmitB
  \/ AppTypeA
  \/ AppTypeAgeA
  \/ ToggleTermsA
  \/ TypeCountryA
  \/ SelectCountryA
  \/ BlurA
  \/ AppImageA
  \/ AppTypeB
  \/ AppTypeAgeB
  \/ ToggleTermsB
  \/ AppImageB

SpecApp == InitApp /\ [][NextApp]_vars

(***************************************************************************)
(* Properties                                                              *)
(***************************************************************************)
Parsed == mounted = "none" /\ effects # <<>>

Contains(s, C) == \E i \in 1..Len(s) : s[i] \in C

\* field f of bundle d has at least one failing rule, the rule of
\* confirmPassword being "non-empty and equal to password"
FieldFails(d, f) ==
  CASE f = "name"            -> nameIssues(d.name) # <<>>
    [] f = "age"             -> ageIssues(d.age) # <<>>
    [] f = "email"           -> emailIssues(d.email) # <<>>
    [] f = "password"        -> passwordIssues(d.password) # <<>>
    [] f = "confirmPassword" -> \/ d.confirmPassword = <<>>
                                \/ d.confirmPassword # d.password
    [] f = "gender"          -> genderIssues(d.gender) # <<>>
    [] f = "terms"           -> termsIssues(d.terms) # <<>>
    [] f = "imageBase64"     -> imageBase64Issues(d.imageBase64) # <<>>
    [] f = "country"         -> countryIssues(d.country) # <<>>

FailingFields(d) == {f \in FieldSet : FieldFails(d, f)}

\* the two calls a successful submit of bundle v makes, in order
SubmitCalls(v) ==
  << [op |-> "setFormValue", arg |-> v], [op |-> "onSubmit", arg |-> v] >>

HasMatchError(errs) ==
  /\ "confirmPassword" \in DOMAIN errs
  /\ errs.confirmPassword = MsgMatch

\* C1: in Variant B a submit of values that fail validation leaves the store
\* and the values alone, makes no dispatch and no callback, and leaves
\* ValidationErrors with an entry for exactly the fields that have a failing
\* rule
C1_FailedSubmit ==
  [][ (SubmitB /\ ~Valid(values)) =>
        /\ store' = store
        /\ values' = values
        /\ effects' = <<>>
        /\ DOMAIN errors' = FailingFields(values)
        /\ errors' # NoErrors ]_vars

\* a failed submit of the empty form has happened: name carries the message
\* of its last rule, which only handleSubmit records
C1_Witness ==
  /\ mounted = "uncontrolled"
  /\ values = defaultFormValues
  /\ store = defaultFormValues
  /\ DOMAIN errors = FieldSet \ {"imageBase64"}
  /\ errors.name = MsgNameMin2

C3_AsStated ==
  mounted = "controlled" => (SubmitEnabled <=> Valid(values))

\* C4: in Variant A the merge and the callback are made only for a bundle
\* that passes validation, the merge first and both with that bundle; a
\* submit of invalid values makes neither and leaves the store alone
C4_SubmitGuard ==
  [][ /\ effects' # <<>> => (Valid(values) /\ effects' = SubmitCalls(values))
      /\ (SubmitA /\ Valid(values)) => effects' = SubmitCalls(values)
      /\ (SubmitA /\ ~Valid(values)) => (effects' = <<>> /\ store' = store)
      /\ store' # store => effects' # <<>> ]_vars

\* a submit of invalid values has been attempted in Variant A (the button
\* was enabled) and nothing was dispatched or called
C4_Witness ==
  /\ mounted = "controlled"
  /\ isSubmitted
  /\ ~Valid(values)
  /\ errors # NoErrors
  /\ effects = <<>>
  /\ store = AcceptedBundle

\* the special characters the specification lists
ListedSpecial ==
  {"!","@","#","$","%","^","&","*","(",")","_","+","-","=","[","]",
   "{","}",";","'","\"","\\","|",",",".","<",">","/","?"}

BeforeTerminator(p) ==
  {i \in 1..Len(p) : \A j \in 1..i : p[j] \notin {"\n", "\r"}}

PairClean ==
  PathsOf(issues) \cap {"password", "confirmPassword"} = {}

MatchIssueOn(f) ==
  \E i \in 1..Len(issues) : issues[i] = Issue(f, MsgMatch)

C7_AsStated ==
  [][ (\/ values'.password # values.password
       \/ values'.confirmPassword # values.confirmPassword) =>
        (values'.confirmPassword # <<>> =>
           (HasMatchError(errors') <=>
              values'.confirmPassword # values'.password)) ]_vars

\* C8 (as stated): when a field is changed (and so re-validated, in Variant
\* B) to a value that satisfies all of its rules, ValidationErrors has no
\* entry for it afterwards
C8_AsStated ==
  [][ \A f \in FieldSet :
        (values'[f] # values[f] /\ ~FieldFails(values', f)) =>
          f \notin DOMAIN errors' ]_vars

\* C9 (as stated): in Variant B a change event leaves ValidationErrors as it
\* was
C9_AsStated ==
  [][ values' # values => errors' = errors ]_vars

\* C9 (amended): in Variant B a change event updates only the changed
\* field's value and, in ValidationErrors, only the changed field's entry;
\* the entries of the other fields, the store and onSubmit are left alone
C9_ChangeFrame ==
  [][ \A f \in FieldSet :
        values'[f] # values[f] =>
          /\ \A g \in FieldSet \ {f} :
               /\ values'[g] = values[g]
               /\ (g \in DOMAIN errors') <=> (g \in DOMAIN errors)
               /\ g \in DOMAIN errors => errors'[g] = errors[g]
          /\ store' = store
          /\ effects' = <<>> ]_vars

\* a change event of Variant B has set an entry: email carries the message
\* of its first rule, which only validateField records
C9_Witness ==
  /\ mounted = "uncontrolled"
  /\ "email" \in DOMAIN errors
  /\ errors.email = MsgEmailRequired

\* C10: once a submit has called onSubmit with bundle v, the store holds v's
\* value under every key of v
C10_RoundTrip ==
  \A i \in DOMAIN effects :
    effects[i].op = "onSubmit" =>
      \A k \in DOMAIN effects[i].arg : store[k] = effects[i].arg[k]

\* a successful submit has replaced an accepted bundle of an earlier session
\* by a different one
C10_Witness ==
  /\ effects = SubmitCalls(values)
  /\ mounted = "controlled"
  /\ store = values
  /\ store # AcceptedBundle

\* the merges whose payload carried key k
MergesWith(k) == {i \in 1..Len(payloads) : k \in DOMAIN payloads[i]}

\* C11: after any sequence of merges every key of the store holds the value
\* of the most recent payload that carried it, or its default when none
\* did, and merging the last payload once more changes nothing
C11_ShallowMerge ==
  /\ DOMAIN store = FieldSet
  /\ \A k \in FieldSet :
       IF MergesWith(k) = {}
         THEN store[k] = defaultFormValues[k]
         ELSE LET last == CHOOSE i \in MergesWith(k) :
                            \A j \in MergesWith(k) : j <= i
              IN store[k] = payloads[last][k]
  /\ payloads # <<>> => setFormValue(store, payloads[Len(payloads)]) = store

\* two merges have been made, the second overwriting the name of the first
\* and omitting imageBase64, which keeps the value the first one gave it
C11_Witness ==
  /\ Len(payloads) = 2
  /\ DOMAIN payloads[1] = {"name", "imageBase64"}
  /\ DOMAIN payloads[2] = {"name"}
  /\ payloads[1].name # payloads[2].name
  /\ store.name = payloads[2].name
  /\ store.imageBase64 = payloads[1].imageBase64
  /\ store.imageBase64 # <<>>

\* C12 (as stated): in Variant B a failed submit records, for every field
\* with a failing rule, the message of the first failing rule of the field
C12_AsStated ==
  [][ (SubmitB /\ ~Valid(values)) =>
        \A f \in DOMAIN errors' :
          errors'[f] = FirstMessage(Issues(values), f) ]_vars

\* a password shorter than 8 characters that also fails the character-class
\* rule
ShortAndWeak(p) == Len(p) < 8 /\ ~PasswordRegex(p)

\* SubmitB taken with values that fail validation: nothing is called
FailedSubmitB == values' = values /\ effects' = <<>> /\ SubmitB

\* SubmitA taken with values that fail validation: nothing is called
FailedSubmitA == values' = values /\ effects' = <<>> /\ SubmitA

Blank(term) == \A i \in 1..Len(term) : term[i] \in {" ", "\t", "\n", "\r"}

\* the first n elements of a list, or all of it when it is shorter
FirstN(list, n) == [i \in 1..(IF Len(list) < n THEN Len(list) ELSE n) |-> list[i]]

\* C14: the filter returns at most 10 records, and for a blank term exactly
\* the first min(10, len) records of the list, in order and unmodified
C14_FilterBlank ==
  /\ Len(filteredCountries) <= 10
  /\ Blank(searchTerm) => filteredCountries = FirstN(countries, 10)

\* a blank term that is not empty has been typed over a list of more than
\* 10 records whose first 10 are not all alike
C14_Witness ==
  /\ Blank(searchTerm)
  /\ searchTerm # <<>>
  /\ Len(countries) > 10
  /\ countries[1] # countries[2]
  /\ Len(filteredCountries) = 10

\* two characters that are the same letter in either case, or the same
\* character
SameLetter(a, b) ==
  \/ a = b
  \/ \E k \in 1..26 : {a, b} = {UpperLetters[k], LowerLetters[k]}

\* s contains t as a case-insensitive substring
ContainsCI(s, t) ==
  \E i \in 0..(Len(s) - Len(t)) :
    \A j \in 1..Len(t) : SameLetter(s[i + j], t[j])

TermMatches(country, term) ==
  ContainsCI(country.name, term) \/ ContainsCI(country.alpha2Code, term)

\* C15: for a term that is not blank the filter returns the first (up to
\* 10) records of the list, in list order, whose name or alpha-2 code
\* contains the term as a case-insensitive substring
C15_FilterMatch ==
  ~Blank(searchTerm) =>
    filteredCountries =
      FirstN(SelectSeq(countries, LAMBDA c : TermMatches(c, searchTerm)), 10)

\* a term has been typed that matches more than 10 records of the list, by
\* their code and not by their name, a record that does not match standing
\* before them
C15_Witness ==
  /\ ~Blank(searchTerm)
  /\ Len(countries) > 11
  /\ ~TermMatches(countries[1], searchTerm)
  /\ Len(filteredCountries) = 10
  /\ ~ContainsCI(filteredCountries[1].name, searchTerm)
  /\ ContainsCI(filteredCountries[1].alpha2Code, searchTerm)

\* C16: the filter gives the same result whenever it is run on the same
\* list and term, and filtering its result again with the same term gives
\* that result
C16_FilterIdempotent ==
  /\ filteredCountries = FilterEffect(countries, searchTerm)
  /\ FilterEffect(filteredCountries, searchTerm) = filteredCountries

\* a term that is not blank has cut a list of more than 10 records down to
\* fewer than 10
C16_Witness ==
  /\ ~Blank(searchTerm)
  /\ Len(countries) > 10
  /\ filteredCountries # <<>>
  /\ Len(filteredCountries) < 10

AgeMessages ==
  SelectSeq(issues, LAMBDA x : x.path = "age")

\* C17 (as stated): the rule set accepts an age exactly when it is an
\* integer from 18 to 120; an integer from 0 to 17 gets 'Must be at least 18
\* years old', one above 120 gets 'Age must be reasonable', and a number that
\* is not an integer is rejected
C17_AsStated ==
  Parsed =>
    LET a == values.age
    IN /\ AgeMessages = <<>> <=> (IsInteger(a) /\ a[1] >= 18 /\ a[1] <= 120)
       /\ (IsInteger(a) /\ a[1] >= 0 /\ a[1] <= 17) =>
            AgeMessages = <<Issue("age", "Must be at least 18 years old")>>
       /\ (IsInteger(a) /\ a[1] > 120) =>
            AgeMessages = <<Issue("age", "Age must be reasonable")>>
       /\ Len(a) = 2 => AgeMessages # <<>>

\* C18: handleImageChange on a file larger than 5 MB, or whose MIME type is
\* not image/png, image/jpeg, image/jpg or image/svg+xml, records an error
\* that is not empty, sets the image value to the empty string and starts no
\* conversion: isProcessing is not set
C18_RejectedImage ==
  [][ \A file \in Files :
        ( /\ ImageChange(file)
          /\ \/ file.size > 5 * 1024 * 1024
             \/ file.type \notin {ImagePng, ImageJpeg, ImageJpg, ImageSvg} ) =>
          /\ validationError' # ""
          /\ imageBase64' = <<>>
          /\ isProcessing' = FALSE
          /\ reading' = <<>> ]_vars

\* a file has been refused for its size
C18_Witness ==
  /\ validationError = "Image size must be less than 5MB"
  /\ imageBase64 = <<>>
  /\ ~isProcessing
  /\ reading = <<>>

\* field f has a failing rule in bundle d, as full validation reports it
Invalid(d, f) == f \in PathsOf(Issues(d))

\* C20 (as stated): in Variant A every change of a field, the first one
\* included, and every first blur of a field leave the field's error shown
\* exactly when the field's value is invalid
C20_AsStated ==
  [][ mounted = "controlled" =>
        \A f \in FieldSet \ {"imageBase64"} :
          ( \/ values'[f] # values[f]
            \/ /\ values' = values
               /\ isSubmitted' = isSubmitted
               /\ ~hasInteracted[f]
               /\ hasInteracted'[f] ) =>
            ( (hasInteracted'[f] /\ f \in DOMAIN errors') <=> Invalid(values', f) )
    ]_vars

\* errs and after have the same entry, or both none, for every field but f
SameOutside(errs, after, f) ==
  \A g \in FieldSet \ {f} :
    /\ (g \in DOMAIN after) <=> (g \in DOMAIN errs)
    /\ g \in DOMAIN errs => after[g] = errs[g]

\* C21: the validation pass a change event of Variant B runs for the changed
\* field f, whether it finds f valid or invalid, leaves the ValidationErrors
\* entry of every other field as it was; the pass assigns no field value, so
\* the values after the event differ from those before in f alone
C21_PartialFrame ==
  [][ \A f \in FieldSet :
        values'[f] # values[f] =>
          /\ errors' = validateField(f, values'[f], values, errors)
          /\ SameOutside(errors, errors', f)
          /\ values' = [values EXCEPT ![f] = values'[f]] ]_vars

\* a pass has found a field valid and the whole form with it, and has left
\* the entry of another field, set by an earlier pass, in place
C21_Witness ==
  /\ mounted = "uncontrolled"
  /\ Valid(values)
  /\ effects = <<>>
  /\ store = defaultFormValues
  /\ DOMAIN errors = {"name"}

\* the bundle both variants can be given by typing: the accepted bundle with
\* the password that can be typed
TypedBundle ==
  [AcceptedBundle EXCEPT !.password = StrongA, !.confirmPassword = StrongA]

\* C24: a submit of either variant accepts the bundle of field values exactly
\* when the bundle passes validation, and on acceptance dispatches the merge
\* of that very bundle and calls onSubmit with it; on rejection it does
\* neither.  The decision and the bundle passed on depend on the bundle
\* alone, not on the variant.
C24_SameDecision ==
  [][ ( /\ values' = values \/ effects' # <<>>
        /\ hasInteracted' = hasInteracted
        /\ SubmitA \/ SubmitB ) =>
        IF FailingFields(values) = {}
          THEN /\ effects' = << [op |-> "setFormValue", arg |-> values],
                                [op |-> "onSubmit", arg |-> values] >>
               /\ store' = [k \in FieldSet |-> values[k]]
          ELSE /\ effects' = <<>>
               /\ store' = store ]_vars

\* Variant A has accepted the bundle that Variant B accepts when it is typed
\* into it
C24_Witness ==
  /\ mounted = "controlled"
  /\ isSubmitted
  /\ values = TypedBundle
  /\ effects = SubmitCalls(TypedBundle)
  /\ store = TypedBundle

\* the empty defaults of a form
EmptyDefaults ==
  [name |-> <<>>, age |-> <<0>>, email |-> <<>>, password |-> <<>>,
   confirmPassword |-> <<>>, gender |-> <<>>, terms |-> FALSE,
   imageBase64 |-> <<>>, country |-> <<>>]

\* a form is mounted by the step
Mounts == mounted' # mounted /\ mounted' # "none"

\* C25: a form that is mounted, of either variant, has all its fields set to
\* the values the store holds, which are those of the last successful submit,
\* or the empty defaults when no submit has succeeded yet; it shows no error
C25_Prefill ==
  [][ Mounts =>
        /\ values' = store
        /\ errors' = NoErrors
        /\ IF submittedData = <<>>
             THEN values' = EmptyDefaults
             ELSE values' = submittedData[1] ]_vars

\* two submits have succeeded and Variant A has been mounted after them: its
\* values are those of the second
C25_Witness ==
  /\ mounted = "controlled"
  /\ timers = 2
  /\ submittedData # <<>>
  /\ values = submittedData[1]
  /\ values.name = <<"A","l">>
  /\ hasInteracted = NoFlags
  /\ effects = <<>>

\* C26: whatever opens and closes came before, while the modal is open an
\* Escape keydown and a mousedown outside the dialog each call onClose
\* exactly once, and a mousedown inside the dialog or another key never does;
\* while the modal is closed no key or mouse event calls onClose
C26_CloseCalls ==
  [][ /\ \A key \in {"Escape", "Enter"} :
           Keydown(key) =>
             Len(effects') = IF isModalOpen /\ key = "Escape" THEN 1 ELSE 0
      /\ \A target \in {"dialog", "outside"} :
           Mousedown(target) =>
             Len(effects') = IF isModalOpen /\ target = "outside" THEN 1 ELSE 0
      /\ \A i \in DOMAIN effects' :
           effects'[i].op = "onClose" => (isModalOpen /\ ~isModalOpen')
      /\ listeners' = IF isModalOpen' THEN 1 ELSE 0 ]_vars

\* the modal, opened again after a submit had closed it, has been closed by
\* one call of onClose
C26_Witness ==
  /\ submittedData # <<>>
  /\ ~isModalOpen
  /\ mounted = "none"
  /\ Len(effects) = 1
  /\ effects[1].op = "onClose"
  /\ listeners = 0

\* C27: the form store changes only by a successful submit, which gives it
\* the submitted bundle: field changes, blurs, image and country selections,
\* failed submits and opening or closing the modal leave it as it was; a form
\* mounted again has the store's values, not those typed before
C27_StoreFrame ==
  [][ /\ store' # store =>
           /\ mounted # "none"
           /\ FailingFields(values) = {}
           /\ store' = values
           /\ effects' = SubmitCalls(values)
      /\ (AppSubmitA \/ AppSubmitB) =>
           (FailingFields(values) # {} => store' = store)
      /\ mounted' # mounted => store' = values' \/ mounted' = "none" ]_vars

\* after a successful submit Variant A has been mounted again, its values
\* changed and a submit refused: the store still holds the submitted bundle
C27_Witness ==
  /\ mounted = "controlled"
  /\ isSubmitted
  /\ errors # NoErrors
  /\ submittedData # <<>>
  /\ store = submittedData[1]
  /\ values # store

\* the step is a successful submit
SubmitSucceeds ==
  /\ effects' # <<>>
  /\ effects'[1].op = "setFormValue"

\* C30: every successful submit turns the highlight on and starts a timer,
\* and no timer is ever cancelled: the number of pending timers goes down
\* only when one fires, and a timer that fires turns the highlight off even
\* while the timer of a later submit is pending; when no timer is pending the
\* highlight is off
C30_HighlightTimers ==
  [][ /\ SubmitSucceeds => (timers' = timers + 1 /\ showHighlight')
      /\ timers' < timers =>
           /\ timers' = timers - 1
           /\ ~showHighlight'
           /\ submittedData' = submittedData
           /\ isModalOpen' = isModalOpen
      /\ timers' = 0 => ~showHighlight'
      /\ showHighlight' # showHighlight =>
           (SubmitSucceeds \/ timers' < timers) ]_vars

\* the timer of an earlier submit has turned the highlight of a later one off
\* while the later one's own timer is pending
C30_Witness ==
  /\ timers = 1
  /\ ~showHighlight
  /\ submittedData # <<>>

\* C29: in Variant A the country value is always the empty string, the value
\* the form was given from the store when it was mounted, or the name of a
\* record of the dropdown; a keystroke in the search box (a change of country
\* that is not a click on a record) sets it to the empty string, which fails
\* the country rule
C29_CountryValue ==
  [][ mounted = "controlled" =>
        /\ values.country \in
             { <<>>, defaultFormValues.country, AcceptedBundle.country }
               \cup CountryNames
        /\ TypeCountryA =>
             /\ values'.country = <<>>
             /\ countryIssues(values'.country) # <<>>
        /\ values'.country # values.country =>
             values'.country \in {<<>>} \cup CountryNames ]_vars

\* the country given from the store has been wiped by keystrokes in the search
\* box and the country rule's message is shown
C29_Witness ==
  /\ mounted = "controlled"
  /\ store.country = <<"C","a","n","a","d","a">>
  /\ values.country = <<>>
  /\ hasInteracted.country
  /\ "country" \in DOMAIN errors
  /\ errors.country = "Please select a country"

\* the data URI FileReader gives for a file
DataUri(file) ==
  <<"d","a","t","a",":">> \o file.type \o
  <<";","b","a","s","e","6","4",",">> \o <<file.content>>

PickedAcceptable ==
  /\ files # <<>>
  /\ validateImage(files[1]) = NoImageError

\* C23 (as stated): in a rendered image field at most one conversion is in
\* flight, and once it has settled the image value is the data URI of the file
\* selected last, or empty when that file was refused or the selection cleared
C23_AsStated ==
  /\ Len(reading) <= 1
  /\ reading = <<>> =>
       imageBase64 = IF PickedAcceptable THEN DataUri(files[1]) ELSE <<>>

\* C23 (amended): the same, the image value being empty also when the
\* conversion of the file selected last has failed
C23_OneAtATime ==
  /\ Len(reading) <= 1
  /\ isProcessing => (reading # <<>> /\ reading[1] = files[1])
  /\ reading = <<>> =>
       imageBase64 = IF PickedAcceptable /\ validationError # MsgImageProcess
                       THEN DataUri(files[1])
                       ELSE <<>>

\* the file selected last has been converted, no conversion is pending and
\* the value is that file's data URI
C23_Witness ==
  /\ reading = <<>>
  /\ PickedAcceptable
  /\ files[1].type = ImageJpeg
  /\ files[1].content = "y"
  /\ imageBase64 = DataUri(files[1])
  /\ validationError = ""

\* C28: handleImageChange has no in-flight guard: a conversion that settles
\* sets the image value to its own output whatever was selected after it, so
\* the value left is that of the conversion that settles last
C28_LastSettledWins ==
  [][ \A i \in DOMAIN reading :
        /\ ReadDone(i) =>
             /\ imageBase64' = DataUri(reading[i])
             /\ Len(reading') = Len(reading) - 1
        /\ ReadFailed(i) => imageBase64' = <<>> ]_vars

\* two conversions were pending at once and both have settled: the value is
\* the output of the file selected first, not of the one selected last
C28_Witness ==
  /\ reading = <<>>
  /\ PickedAcceptable
  /\ validationError = ""
  /\ imageBase64 # <<>>
  /\ imageBase64 # DataUri(files[1])

====
